---- MODULE Spec2Model ----
(***************************************************************************)
(* Model of the Solar turn engine (src/solar/state.py, structures.py).     *)
(*                                                                         *)
(* Numbers.  The engine computes with Python floats; the model computes    *)
(* with exact fixed-point integers: every energy quantity is counted in    *)
(* hundredths of a unit (4.0 -> 400, 0.25 -> 25, 12.0 -> 1200) and         *)
(* sunlight in tenths (1.0 -> 10, 0.2 -> 2).  All catalogue values and all *)
(* inputs used here are exact in that grid, so every sum, difference, min  *)
(* and max below is the exact real result; floating-point rounding is not  *)
(* modelled.                                                               *)
(***************************************************************************)
EXTENDS Integers, Sequences, FiniteSets, TLC

VARIABLES width, height, _tiles, energy_storage, max_storage, unmet_demand,
          turns, last, occupant, schedule

vars == <<width, height, _tiles, energy_storage, max_storage, unmet_demand,
          turns, last, occupant, schedule>>

\* ------------------------------------------------------------------ bounds
\* Number of successful advance_turn calls explored.
MaxTurns == 2

\* Board dimensions handed to the constructor (both positive): one column of
\* two rows, and one row of two columns.
Boards == {<<1, 2>>, <<2, 1>>}

\* (sunlight, demand) pairs a caller passes to advance_turn; sunlight in
\* tenths, demand in hundredths: (1.0, 2.0), (0.2, 3.0), a blackout (0, 0),
\* a bonus-sunlight turn (3.0, 0), and two rejected pairs with a negative
\* component.
TurnInputs ==
    {<<10, 200>>, <<2, 300>>, <<0, 0>>, <<30, 0>>, <<-1, 0>>, <<10, -100>>}

\* The sunlight and demand values the properties of a single advance_turn call
\* are checked for, in every reachable state.
Sunlights == {-1, 0, 2, 10, 30}

Demands == {-100, 0, 200, 300}

\* ------------------------------------------------------- structure catalogue
SOLAR_PANEL ==
    [name |-> "Solar Panel", base_production |-> 400, upkeep |-> 25,
     storage_capacity |-> 0, adjacency_bonus |-> 40]

BATTERY_BANK ==
    [name |-> "Battery Bank", base_production |-> 0, upkeep |-> 5,
     storage_capacity |-> 1200, adjacency_bonus |-> 0]

HABITAT_DOME ==
    [name |-> "Habitat Dome", base_production |-> 0, upkeep |-> 160,
     storage_capacity |-> 0, adjacency_bonus |-> 0]

\* Handles of the catalogue's structures; a cell holds a handle or None.
Catalogue == {"SOLAR_PANEL", "BATTERY_BANK", "HABITAT_DOME"}

\* The structures the calls of Next place; the properties of a single call
\* are checked for every structure of the catalogue.
Handles == {"SOLAR_PANEL", "BATTERY_BANK"}

None == "None"

Structure(h) ==
    CASE h = "SOLAR_PANEL" -> SOLAR_PANEL
      [] h = "BATTERY_BANK" -> BATTERY_BANK
      [] h = "HABITAT_DOME" -> HABITAT_DOME

Min(a, b) == IF a <= b THEN a ELSE b

Max(a, b) == IF a >= b THEN a ELSE b

\* production with the adjacency bonus left out.
production_NoBonus(s, sunlight, neighbors) ==
    Max(0, (s.base_production * sunlight) \div 10)

\* Structure.production: raw = (base + bonus * neighbors) * sunlight, floored at 0.
\* sunlight is in tenths, hence the division by 10 (exact for the catalogue).
production(s, sunlight, neighbors) ==
    LET bonus == s.adjacency_bonus * neighbors
        raw == ((s.base_production + bonus) * sunlight) \div 10
    IN  Max(0, raw)

\* ------------------------------------------------------------ board helpers
\* _index with the range check made on the flat index instead of on x and y.
_index_flat(x, y) ==
    IF ~(0 <= y * width + x /\ y * width + x < width * height)
    THEN -1
    ELSE y * width + x

\* _index laying the cells out column by column.
_index_column_major(x, y) ==
    IF ~(0 <= x /\ x < width /\ 0 <= y /\ y < height)
    THEN -1
    ELSE x * height + y

\* GameState._index: the flat index of (x, y), or -1 for "raises PlacementError".
OutsideBoard == -1

_index(x, y) ==
    IF ~(0 <= x /\ x < width /\ 0 <= y /\ y < height)
    THEN OutsideBoard
    ELSE y * width + x

\* _neighbors without the checks of the column: the flat index before and the
\* one after count as neighbours whatever row they are in.
_neighbors_wrap(index) ==
    (IF index > 0 THEN {index - 1} ELSE {})
    \cup (IF index < width * height - 1 THEN {index + 1} ELSE {})
    \cup (IF index \div width > 0 THEN {index - width} ELSE {})
    \cup (IF index \div width < height - 1 THEN {index + width} ELSE {})

\* GameState._neighbors: the flat indices orthogonally next to `index`.
_neighbors(index) ==
    LET x == index % width
        y == index \div width
    IN  (IF x > 0 THEN {index - 1} ELSE {})
        \cup (IF x < width - 1 THEN {index + 1} ELSE {})
        \cup (IF y > 0 THEN {index - width} ELSE {})
        \cup (IF y < height - 1 THEN {index + width} ELSE {})

\* GameState._adjacent_same_type on a grid t.
_adjacent_same_type(t, index) ==
    IF t[index] = None
    THEN 0
    ELSE Cardinality({n \in _neighbors(index) :
            t[n] # None /\ Structure(t[n]).name = Structure(t[index]).name})

\* ------------------------------------------------------------- engine state
\* The engine's mutable fields as one record; the operations below are
\* functions from such a record (and the call's arguments) to the call's result.
State(t, es, ms, un) ==
    [_tiles |-> t, energy_storage |-> es, max_storage |-> ms, unmet_demand |-> un]

Snapshot == State(_tiles, energy_storage, max_storage, unmet_demand)

\* A call's result: how it ended ("ok", or the error raised), the fields it
\* leaves, the tile it wrote (OutsideBoard when none) and the EnergyReport it
\* returned (<<>> when none, <<report>> otherwise).
Result(outcome, st, index, report) ==
    [outcome |-> outcome, state |-> st, index |-> index, report |-> report]

PlacementErrors == {"outside", "occupied", "empty"}

ValueErrors == {"invalid_input"}

\* ---------------------------------------------------------- place_structure
\* PlacedCapacity with the cap left to the next turn's recomputation.
PlacedCapacity_Lazy(ms, s) == ms

\* max_storage after a placement of structure s (state.py 98-99).
PlacedCapacity(ms, s) ==
    IF s.storage_capacity # 0 THEN ms + s.storage_capacity ELSE ms

\* place_structure without the check that the tile is free.
place_structure_result_overwrite(st, x, y, h) ==
    IF _index(x, y) = -1
    THEN Result("outside", st, -1, <<>>)
    ELSE Result("ok",
                State([st._tiles EXCEPT ![_index(x, y)] = h],
                      st.energy_storage,
                      PlacedCapacity(st.max_storage, Structure(h)),
                      st.unmet_demand),
                _index(x, y), <<>>)

\* place_structure delivering a storage unit charged: energy_storage grows
\* with the cap.
place_structure_result_charged(st, x, y, h) ==
    LET index == _index(x, y)
        structure == Structure(h)
    IN  IF index = OutsideBoard
        THEN Result("outside", st, OutsideBoard, <<>>)
        ELSE IF st._tiles[index] # None
        THEN Result("occupied", st, OutsideBoard, <<>>)
        ELSE Result("ok",
                    State([st._tiles EXCEPT ![index] = h],
                          st.energy_storage + structure.storage_capacity,
                          PlacedCapacity(st.max_storage, structure),
                          st.unmet_demand),
                    index, <<>>)

place_structure_result(st, x, y, h) ==
    LET index == _index(x, y)
        structure == Structure(h)
    IN  IF index = OutsideBoard
        THEN Result("outside", st, OutsideBoard, <<>>)
        ELSE IF st._tiles[index] # None
        THEN Result("occupied", st, OutsideBoard, <<>>)
        ELSE Result("ok",
                    State([st._tiles EXCEPT ![index] = h],
                          st.energy_storage,
                          PlacedCapacity(st.max_storage, structure),
                          st.unmet_demand),
                    index, <<>>)

\* --------------------------------------------------------- remove_structure
\* RemovedStorage without the clamp of energy_storage to the new cap.
RemovedStorage_NoClamp(es, ms, s) ==
    IF s.storage_capacity # 0
    THEN <<Max(0, ms - s.storage_capacity), es>>
    ELSE <<ms, es>>

\* RemovedStorage with the cap left as it was.
RemovedStorage_StaleCap(es, ms, s) == <<ms, Min(es, ms)>>

\* <<max_storage, energy_storage>> after removing structure s (state.py 108-110).
RemovedStorage(es, ms, s) ==
    IF s.storage_capacity # 0
    THEN LET cap == Max(0, ms - s.storage_capacity)
         IN  <<cap, Min(es, cap)>>
    ELSE <<ms, es>>

\* remove_structure returning quietly when the tile is already empty.
remove_structure_result_silent(st, x, y) ==
    IF _index(x, y) = -1
    THEN Result("outside", st, -1, <<>>)
    ELSE IF st._tiles[_index(x, y)] = None
    THEN Result("ok", st, -1, <<>>)
    ELSE LET after == RemovedStorage(st.energy_storage, st.max_storage,
                                     Structure(st._tiles[_index(x, y)]))
         IN  Result("ok",
                    State([st._tiles EXCEPT ![_index(x, y)] = None],
                          after[2], after[1], st.unmet_demand),
                    _index(x, y), <<>>)

\* remove_structure booking the energy its clamp discards as unmet demand.
remove_structure_result_tracked(st, x, y) ==
    LET index == _index(x, y)
    IN  IF index = OutsideBoard
        THEN Result("outside", st, OutsideBoard, <<>>)
        ELSE IF st._tiles[index] = None
        THEN Result("empty", st, OutsideBoard, <<>>)
        ELSE LET after == RemovedStorage(st.energy_storage, st.max_storage,
                                         Structure(st._tiles[index]))
             IN  Result("ok",
                        State([st._tiles EXCEPT ![index] = None],
                              after[2], after[1],
                              st.unmet_demand + (st.energy_storage - after[2])),
                        index, <<>>)

remove_structure_result(st, x, y) ==
    LET index == _index(x, y)
    IN  IF index = OutsideBoard
        THEN Result("outside", st, OutsideBoard, <<>>)
        ELSE IF st._tiles[index] = None
        THEN Result("empty", st, OutsideBoard, <<>>)
        ELSE LET after == RemovedStorage(st.energy_storage, st.max_storage,
                                         Structure(st._tiles[index]))
             IN  Result("ok",
                        State([st._tiles EXCEPT ![index] = None],
                              after[2], after[1], st.unmet_demand),
                        index, <<>>)

\* ------------------------------------------------------------- advance_turn
\* The scan of the board (state.py 129-142): the totals over tiles 0 .. n-1 of
\* grid t, accumulated in index order as the for loop does.
\* The scan with each structure's upkeep scaled by sunlight as its production
\* is.
RECURSIVE ScanTiles_ScaledUpkeep(_, _, _)
ScanTiles_ScaledUpkeep(t, sunlight, n) ==
    IF n = 0
    THEN [production |-> 0, upkeep |-> 0, storage_capacity |-> 0]
    ELSE LET acc == ScanTiles_ScaledUpkeep(t, sunlight, n - 1)
             idx == n - 1
         IN  IF t[idx] = None
             THEN acc
             ELSE LET structure == Structure(t[idx])
                      neighbors == _adjacent_same_type(t, idx)
                  IN  [production |-> acc.production
                                      + production(structure, sunlight, neighbors),
                       upkeep |-> acc.upkeep
                                  + (structure.upkeep * sunlight) \div 10,
                       storage_capacity |->
                           acc.storage_capacity + structure.storage_capacity]

RECURSIVE ScanTiles(_, _, _)
ScanTiles(t, sunlight, n) ==
    IF n = 0
    THEN [production |-> 0, upkeep |-> 0, storage_capacity |-> 0]
    ELSE LET acc == ScanTiles(t, sunlight, n - 1)
             idx == n - 1
         IN  IF t[idx] = None
             THEN acc
             ELSE LET structure == Structure(t[idx])
                      neighbors == _adjacent_same_type(t, idx)
                  IN  [production |-> acc.production
                                      + production(structure, sunlight, neighbors),
                       upkeep |-> acc.upkeep + structure.upkeep,
                       storage_capacity |->
                           IF structure.storage_capacity # 0
                           THEN acc.storage_capacity + structure.storage_capacity
                           ELSE acc.storage_capacity]

\* energy_storage after the refresh of the storage cap (state.py 145-146),
\* cap being the freshly summed storage capacity.
ClampedStorage(es, cap) == Min(es, cap)

\* Settle with the cumulative counter overwritten by the turn's deficit.
Settle_Overwrite(net, es, ms, un) ==
    IF net >= 0
    THEN LET stored == Min(net, ms - es)
         IN  [stored |-> stored, discharged |-> 0,
              overflow |-> net - stored, unmet |-> 0,
              energy_storage |-> es + stored, unmet_demand |-> un]
    ELSE LET discharged == Min(es, -net)
             unmet == -net - discharged
         IN  [stored |-> 0, discharged |-> discharged,
              overflow |-> 0, unmet |-> unmet,
              energy_storage |-> es - discharged, unmet_demand |-> unmet]

\* Settle storing the whole surplus, whatever room is left.
Settle_NoCap(net, es, ms, un) ==
    IF net >= 0
    THEN [stored |-> net, discharged |-> 0, overflow |-> 0, unmet |-> 0,
          energy_storage |-> es + net, unmet_demand |-> un]
    ELSE LET discharged == Min(es, -net)
             unmet == -net - discharged
         IN  [stored |-> 0, discharged |-> discharged,
              overflow |-> 0, unmet |-> unmet,
              energy_storage |-> es - discharged, unmet_demand |-> un + unmet]

\* Settle recording the whole requirement as unmet before storage is drained.
Settle_UnmetFirst(net, es, ms, un) ==
    IF net >= 0
    THEN LET stored == Min(net, ms - es)
         IN  [stored |-> stored, discharged |-> 0,
              overflow |-> net - stored, unmet |-> 0,
              energy_storage |-> es + stored, unmet_demand |-> un]
    ELSE LET discharged == Min(es, -net)
         IN  [stored |-> 0, discharged |-> discharged,
              overflow |-> 0, unmet |-> -net,
              energy_storage |-> es - discharged, unmet_demand |-> un - net]

\* Settle draining the whole requirement from storage, however little is
\* stored.
Settle_OverDischarge(net, es, ms, un) ==
    IF net >= 0
    THEN LET stored == Min(net, ms - es)
         IN  [stored |-> stored, discharged |-> 0,
              overflow |-> net - stored, unmet |-> 0,
              energy_storage |-> es + stored, unmet_demand |-> un]
    ELSE [stored |-> 0, discharged |-> -net,
          overflow |-> 0, unmet |-> 0,
          energy_storage |-> es + net, unmet_demand |-> un]

\* Settle reporting the whole surplus as overflow, the stored part included.
Settle_OverflowAll(net, es, ms, un) ==
    IF net >= 0
    THEN LET stored == Min(net, ms - es)
         IN  [stored |-> stored, discharged |-> 0,
              overflow |-> net, unmet |-> 0,
              energy_storage |-> es + stored, unmet_demand |-> un]
    ELSE LET discharged == Min(es, -net)
         IN  [stored |-> 0, discharged |-> discharged,
              overflow |-> 0, unmet |-> -net - discharged,
              energy_storage |-> es - discharged,
              unmet_demand |-> un - net - discharged]

\* Settle charging at most half of the room left under the cap and draining
\* at most half of what is stored.
Settle_HalfRate(net, es, ms, un) ==
    IF net >= 0
    THEN LET stored == Min(net, (ms - es) \div 2)
         IN  [stored |-> stored, discharged |-> 0,
              overflow |-> net - stored, unmet |-> 0,
              energy_storage |-> es + stored, unmet_demand |-> un]
    ELSE LET discharged == Min(es \div 2, -net)
             unmet == -net - discharged
         IN  [stored |-> 0, discharged |-> discharged,
              overflow |-> 0, unmet |-> unmet,
              energy_storage |-> es - discharged, unmet_demand |-> un + unmet]

\* Settle storing a surplus only when the whole of it fits under the cap.
Settle_AllOrNothing(net, es, ms, un) ==
    IF net >= 0
    THEN LET stored == IF net <= ms - es THEN net ELSE 0
         IN  [stored |-> stored, discharged |-> 0,
              overflow |-> net - stored, unmet |-> 0,
              energy_storage |-> es + stored, unmet_demand |-> un]
    ELSE LET discharged == Min(es, -net)
             unmet == -net - discharged
         IN  [stored |-> 0, discharged |-> discharged,
              overflow |-> 0, unmet |-> unmet,
              energy_storage |-> es - discharged, unmet_demand |-> un + unmet]

\* The charge / discharge step (state.py 148-164) for a given net, with
\* energy_storage es and max_storage ms as left by the refresh and the
\* cumulative unmet_demand un.
Settle(net, es, ms, un) ==
    IF net >= 0
    THEN LET available_capacity == ms - es
             stored == Min(net, available_capacity)
         IN  [stored |-> stored, discharged |-> 0,
              overflow |-> net - stored, unmet |-> 0,
              energy_storage |-> es + stored, unmet_demand |-> un]
    ELSE LET requirement == -net
             discharged == Min(es, requirement)
             unmet == requirement - discharged
         IN  [stored |-> 0, discharged |-> discharged,
              overflow |-> 0, unmet |-> unmet,
              energy_storage |-> es - discharged, unmet_demand |-> un + unmet]

\* The degenerate-storage guard (state.py 167-168).
GuardedStorage(es, ms) == IF ms = 0 /\ es # 0 THEN 0 ELSE es

\* EnergyReport (state.py 15-24, built at 170-177).
EnergyReport(production_, consumption, stored, discharged, unmet, overflow) ==
    [production |-> production_, consumption |-> consumption,
     stored |-> stored, discharged |-> discharged,
     unmet_demand |-> unmet, overflow |-> overflow]

\* EnergyReport.net (state.py 26-30).
NetOf(report) == report.production - report.consumption

\* The input checks with the check of demand left out.
InvalidInput_SunlightOnly(sunlight, demand) == sunlight < 0

\* The input checks (state.py 124-127): TRUE when the call raises ValueError.
InvalidInput(sunlight, demand) == sunlight < 0 \/ demand < 0

advance_turn_result(st, sunlight, demand) ==
    IF InvalidInput(sunlight, demand)
    THEN Result("invalid_input", st, OutsideBoard, <<>>)
    ELSE LET scan == ScanTiles(st._tiles, sunlight, width * height)
             ms == scan.storage_capacity
             es == ClampedStorage(st.energy_storage, ms)
             net == scan.production - scan.upkeep - demand
             flow == Settle(net, es, ms, st.unmet_demand)
         IN  Result("ok",
                    State(st._tiles, GuardedStorage(flow.energy_storage, ms),
                          ms, flow.unmet_demand),
                    OutsideBoard,
                    <<EnergyReport(scan.production, scan.upkeep + demand,
                                   flow.stored, flow.discharged, flow.unmet,
                                   flow.overflow)>>)

\* max_storage and energy_storage as advance_turn holds them when it reaches
\* the degenerate-storage guard (state.py 166), after the scan, the refresh of
\* the cap and the charge / discharge step, for a valid input.
BeforeGuard(st, sunlight, demand) ==
    LET scan == ScanTiles(st._tiles, sunlight, width * height)
        ms == scan.storage_capacity
        es == ClampedStorage(st.energy_storage, ms)
        net == scan.production - scan.upkeep - demand
    IN  [max_storage |-> ms,
         energy_storage |-> Settle(net, es, ms, st.unmet_demand).energy_storage]

\* --------------------------------------------------------------- the calls
\* `last` records the most recent call: which operation, how it ended, the
\* tile it wrote, the report it returned, and max_storage, energy_storage and
\* unmet_demand as they were before the call.  snapshot is the tuple a
\* structures() call returned, and <<>> for the other calls.
\* round_trip is <<m>> for a successful remove_structure that directly follows
\* a successful place_structure on the same tile, m being max_storage before
\* that placement, and <<>> otherwise.
Call(op, r, round_trip) ==
    [op |-> op, outcome |-> r.outcome, index |-> r.index, report |-> r.report,
     pre_max_storage |-> max_storage, pre_energy_storage |-> energy_storage,
     pre_unmet_demand |-> unmet_demand, round_trip |-> round_trip,
     snapshot |-> <<>>]

\* The engine's fields become those of the result r.
Becomes(r) ==
    /\ _tiles' = r.state._tiles
    /\ energy_storage' = r.state.energy_storage
    /\ max_storage' = r.state.max_storage
    /\ unmet_demand' = r.state.unmet_demand

\* `occupant` records, per coordinate pair of the board, the structure the
\* caller has placed there and not removed since (None when there is none):
\* the board as the caller knows it, kept apart from the flat _tiles list.
\* `schedule` is <<>> while the caller calls freely, and <<sunlight, demand>>
\* once the caller has settled on repeating advance_turn with that input on
\* an unchanging grid.

\* GameState.__init__ for one of the given boards: an empty board and zeroed
\* counters.
InitOn(boards) ==
    /\ \E b \in boards : width = b[1] /\ height = b[2]
    /\ width > 0 /\ height > 0
    /\ _tiles = [i \in 0 .. (width * height - 1) |-> None]
    /\ energy_storage = 0
    /\ max_storage = 0
    /\ unmet_demand = 0
    /\ turns = 0
    /\ last = [op |-> "init", outcome |-> "ok", index |-> OutsideBoard,
               report |-> <<>>, pre_max_storage |-> 0, pre_energy_storage |-> 0,
               pre_unmet_demand |-> 0, round_trip |-> <<>>,
               snapshot |-> <<>>]
    /\ occupant = [c \in (0 .. width - 1) \X (0 .. height - 1) |-> None]
    /\ schedule = <<>>

Init == InitOn(Boards)

\* Coordinates a caller may pass: the board and one step beyond each edge.
Xs == -1 .. width

Ys == -1 .. height

place_structure(x, y, h) ==
    LET r == place_structure_result(Snapshot, x, y, h)
    IN  /\ Becomes(r)
        /\ last' = Call("place", r, <<>>)
        /\ occupant' = IF r.outcome = "ok"
                       THEN [occupant EXCEPT ![<<x, y>>] = h]
                       ELSE occupant
        /\ UNCHANGED <<width, height, turns, schedule>>

remove_structure(x, y) ==
    LET r == remove_structure_result(Snapshot, x, y)
        undoes == /\ r.outcome = "ok"
                  /\ last.op = "place" /\ last.outcome = "ok"
                  /\ last.index = r.index
    IN  /\ Becomes(r)
        /\ last' = Call("remove", r,
                        IF undoes THEN <<last.pre_max_storage>> ELSE <<>>)
        /\ occupant' = IF r.outcome = "ok"
                       THEN [occupant EXCEPT ![<<x, y>>] = None]
                       ELSE occupant
        /\ UNCHANGED <<width, height, turns, schedule>>

advance_turn(sunlight, demand) ==
    LET r == advance_turn_result(Snapshot, sunlight, demand)
    IN  /\ r.outcome = "ok" => turns < MaxTurns
        /\ Becomes(r)
        /\ turns' = IF r.outcome = "ok" THEN turns + 1 ELSE turns
        /\ last' = Call("advance", r, <<>>)
        /\ UNCHANGED <<width, height, occupant, schedule>>

\* ----------------------------------------------------------- specification
Next ==
    \/ \E x \in Xs, y \in Ys, h \in Handles : place_structure(x, y, h)
    \/ \E x \in Xs, y \in Ys : remove_structure(x, y)
    \/ \E input \in TurnInputs : advance_turn(input[1], input[2])

Spec == Init /\ [][Next]_vars

\* ------------------------------------------------------------- structures()
\* tuple(self._tiles): the cells of the 0-based list t as a tuple, in list
\* order; entry k of the Python tuple is element k + 1 of the sequence.
tuple(t) == [k \in 1 .. (width * height) |-> t[k - 1]]

\* GameState.structures: returns the snapshot and assigns nothing.
structures ==
    /\ last' = [Call("structures", Result("ok", Snapshot, OutsideBoard, <<>>),
                     <<>>) EXCEPT !.snapshot = tuple(_tiles)]
    /\ UNCHANGED <<width, height, _tiles, energy_storage, max_storage,
                   unmet_demand, turns, occupant, schedule>>

\* ------------------------------------------------- specification: the grid
\* Larger boards (a square, one row, one column), calls with coordinates on
\* the board, bonus-sunlight turns (3.0, 0) that fill the storage within two
\* turns, and the snapshot query: the specification the properties of the
\* grid (order of the cells, adjacency, production) are checked under.
GridBoards == {<<2, 2>>, <<3, 1>>, <<1, 3>>}

GridInputs == {<<30, 0>>}

GridInit == InitOn(GridBoards)

GridNext ==
    \/ \E x \in 0 .. width - 1, y \in 0 .. height - 1, h \in Handles :
           place_structure(x, y, h)
    \/ \E x \in 0 .. width - 1, y \in 0 .. height - 1 : remove_structure(x, y)
    \/ \E input \in GridInputs : advance_turn(input[1], input[2])
    \/ structures

GridSpec == GridInit /\ [][GridNext]_vars

\* ------------------------------------------------ specification: the turns
\* A two-cell board on which the caller places and removes any structure of
\* the catalogue, the habitat dome included, and resolves bright, dim and
\* dark turns; every call is a valid one on the board.
TurnBoards == {<<2, 1>>}

ValidTurnInputs == {<<30, 0>>, <<10, 200>>, <<2, 300>>, <<0, 0>>}

TurnInit == InitOn(TurnBoards)

TurnNext ==
    \/ \E x \in 0 .. width - 1, y \in 0 .. height - 1, h \in Catalogue :
           place_structure(x, y, h)
    \/ \E x \in 0 .. width - 1, y \in 0 .. height - 1 : remove_structure(x, y)
    \/ \E input \in ValidTurnInputs : advance_turn(input[1], input[2])

TurnSpec == TurnInit /\ [][TurnNext]_vars

\* --------------------------------------- specification: charging the store
\* The caller builds a board, then settles on one input and from there on
\* only calls advance_turn with it, again and again: the grid no longer
\* changes.
ChargeBoards == {<<2, 1>>, <<1, 2>>, <<3, 1>>}

ChargeInit == InitOn(ChargeBoards)

\* The caller settles on (sunlight, demand): a valid input that gives the
\* present grid a net surplus, the board holding some storage.
settle_on(sunlight, demand) ==
    /\ schedule = <<>>
    /\ max_storage > 0
    /\ ~InvalidInput(sunlight, demand)
    /\ NetOf(advance_turn_result(Snapshot, sunlight, demand).report[1]) > 0
    /\ schedule' = <<sunlight, demand>>
    /\ UNCHANGED <<width, height, _tiles, energy_storage, max_storage,
                   unmet_demand, turns, last, occupant>>

\* One more advance_turn with the input settled on.  These turns are not
\* counted in `turns`: the store fills after finitely many of them and the
\* state then repeats.
repeat_turn ==
    /\ schedule # <<>>
    /\ \E r \in {advance_turn_result(Snapshot, schedule[1], schedule[2])} :
           /\ Becomes(r)
           /\ last' = Call("advance", r, <<>>)
    /\ UNCHANGED <<width, height, turns, occupant, schedule>>

ChargeNext ==
    \/ /\ schedule = <<>>
       /\ \E x \in 0 .. width - 1, y \in 0 .. height - 1, h \in Handles :
              place_structure(x, y, h)
    \/ /\ schedule = <<>>
       /\ \E x \in 0 .. width - 1, y \in 0 .. height - 1 :
              remove_structure(x, y)
    \/ \E input \in TurnInputs : settle_on(input[1], input[2])
    \/ repeat_turn

\* Once the caller has settled on an input the next turn is always called.
ChargeSpec == ChargeInit /\ [][ChargeNext]_vars /\ WF_vars(repeat_turn)

\* ================================================================= claims
InBoard(x, y) == 0 <= x /\ x < width /\ 0 <= y /\ y < height

Cells == 0 .. (width * height - 1)

\* The sum of storage_capacity over the occupied cells of the set S of grid t.
RECURSIVE CapacityOf(_, _)
CapacityOf(t, S) ==
    IF S = {}
    THEN 0
    ELSE LET c == CHOOSE i \in S : TRUE
         IN  (IF t[c] = None THEN 0 ELSE Structure(t[c]).storage_capacity)
             + CapacityOf(t, S \ {c})

\* C1: in every state reached by place_structure, remove_structure and
\* advance_turn calls, successful or failing, on a fresh engine,
\* 0 <= energy_storage <= max_storage.
C1_StorageWithinCapacity ==
    0 <= energy_storage /\ energy_storage <= max_storage

\* A removal has just clamped stored energy down to the lower cap.
C1_Witness ==
    /\ last.op = "remove" /\ last.outcome = "ok"
    /\ last.pre_energy_storage > 0
    /\ last.pre_energy_storage > max_storage

\* C2: unmet_demand never decreases: no call (advance_turn, place_structure,
\* remove_structure, or a rejected call) lowers or resets it.
C2_UnmetDemandMonotonic == [][unmet_demand' >= unmet_demand]_vars

\* The counter has grown in a turn from an already positive value.
C2_Witness ==
    /\ last.op = "advance" /\ last.outcome = "ok"
    /\ last.pre_unmet_demand > 0
    /\ unmet_demand > last.pre_unmet_demand

\* C3: max_storage is the sum of storage_capacity over the placed structures;
\* the recomputation advance_turn does from scratch gives that same value, and
\* the clamp that follows it leaves energy_storage as it is.
C3_MaxStorageIsPlacedCapacity ==
    /\ max_storage = CapacityOf(_tiles, Cells)
    /\ \A sunlight \in Sunlights :
         LET cap == ScanTiles(_tiles, sunlight, width * height).storage_capacity
         IN  /\ cap = max_storage
             /\ ClampedStorage(energy_storage, cap) = energy_storage

\* A turn has been resolved on a board whose storage was placed before it and
\* already held energy.
C3_Witness ==
    /\ last.op = "advance" /\ last.outcome = "ok"
    /\ max_storage > 0
    /\ last.pre_max_storage = max_storage
    /\ last.pre_energy_storage > 0

\* C4: in every reachable state, for every empty cell and every structure,
\* place_structure followed at once by remove_structure on that cell succeeds
\* twice, restores max_storage to its value before the placement and leaves
\* the cell empty.
C4_PlaceRemoveRoundTrip ==
    /\ \A x \in Xs, y \in Ys, h \in Catalogue :
         (InBoard(x, y) /\ _tiles[y * width + x] = None) =>
            LET placed == place_structure_result(Snapshot, x, y, h)
                removed == remove_structure_result(placed.state, x, y)
            IN  /\ placed.outcome = "ok"
                /\ placed.state._tiles[y * width + x] = h
                /\ removed.outcome = "ok"
                /\ removed.state.max_storage = max_storage
                /\ removed.state._tiles[y * width + x] = None
    /\ last.round_trip # <<>> =>
         /\ max_storage = last.round_trip[1]
         /\ _tiles[last.index] = None

\* A storage unit was placed and removed at once, while energy was stored.
C4_Witness ==
    /\ last.op = "remove" /\ last.outcome = "ok"
    /\ last.round_trip # <<>>
    /\ last.pre_max_storage > max_storage
    /\ energy_storage > 0

\* C5: place_structure and remove_structure with coordinates outside
\* [0,width) x [0,height) raise the outside-the-board PlacementError and leave
\* the grid, energy_storage, max_storage and unmet_demand as they were; an
\* x >= width or a negative x does not reach a cell of another row.
C5_OutsideCoordinatesRejected ==
    \A x \in Xs, y \in Ys :
        ~InBoard(x, y) =>
            /\ \A h \in Catalogue :
                 LET r == place_structure_result(Snapshot, x, y, h)
                 IN  r.outcome = "outside" /\ r.state = Snapshot
            /\ LET r == remove_structure_result(Snapshot, x, y)
               IN  r.outcome = "outside" /\ r.state = Snapshot

\* A call was rejected as outside the board while some coordinates outside
\* the board had a flat index y * width + x of an occupied cell.
C5_Witness ==
    /\ last.op \in {"place", "remove"} /\ last.outcome = "outside"
    /\ \E x \in Xs, y \in Ys :
         /\ ~InBoard(x, y)
         /\ y * width + x \in Cells
         /\ _tiles[y * width + x] # None

\* C6: place_structure onto an occupied cell raises the occupied
\* PlacementError and leaves the occupant, every other cell, max_storage,
\* energy_storage and unmet_demand as they were.
C6_OccupiedPlacementRejected ==
    \A x \in Xs, y \in Ys, h \in Catalogue :
        (InBoard(x, y) /\ _tiles[y * width + x] # None) =>
            LET r == place_structure_result(Snapshot, x, y, h)
            IN  /\ r.outcome = "occupied"
                /\ r.outcome \in PlacementErrors
                /\ r.state = Snapshot

\* A placement onto an occupied cell has been rejected.
C6_Witness ==
    /\ last.op = "place" /\ last.outcome = "occupied"
    /\ \E c \in Cells : _tiles[c] # None

\* C7: remove_structure on an in-range empty cell raises the empty
\* PlacementError and changes nothing: grid, max_storage, energy_storage and
\* unmet_demand are as before the call.
C7_EmptyRemovalRejected ==
    \A x \in Xs, y \in Ys :
        (InBoard(x, y) /\ _tiles[y * width + x] = None) =>
            LET r == remove_structure_result(Snapshot, x, y)
            IN  /\ r.outcome = "empty"
                /\ r.outcome \in PlacementErrors
                /\ r.state = Snapshot

\* A removal from an empty cell has been rejected on a board that holds a
\* storage unit with energy in it.
C7_Witness ==
    /\ last.op = "remove" /\ last.outcome = "empty"
    /\ energy_storage > 0

\* C8: advance_turn with sunlight < 0 or demand < 0 is rejected, returns no
\* report, and leaves the grid, energy_storage, max_storage and unmet_demand
\* exactly as they were.
C8_NegativeInputRejected ==
    \A sunlight \in Sunlights, demand \in Demands :
        (sunlight < 0 \/ demand < 0) =>
            LET r == advance_turn_result(Snapshot, sunlight, demand)
            IN  /\ r.outcome = "invalid_input"
                /\ r.outcome \in ValueErrors
                /\ r.report = <<>>
                /\ r.state = Snapshot

\* A turn with a negative input has been rejected while energy was stored and
\* demand had gone unmet.
C8_Witness ==
    /\ last.op = "advance" /\ last.outcome = "invalid_input"
    /\ last.report = <<>>
    /\ energy_storage > 0
    /\ unmet_demand > 0

\* C9: in an advance_turn with net = production - upkeep - demand >= 0,
\* stored = min(net, max_storage - energy_storage before), overflow = net -
\* stored, discharged = 0 and the turn's unmet_demand = 0; energy_storage
\* grows by exactly stored and the cumulative unmet_demand is unchanged; with
\* no storage capacity at all, stored = 0 and overflow = net.
C9_SurplusTurn ==
    \A sunlight \in Sunlights, demand \in Demands :
        (sunlight >= 0 /\ demand >= 0) =>
            LET r == advance_turn_result(Snapshot, sunlight, demand)
                report == r.report[1]
                net == NetOf(report)
            IN  /\ r.outcome = "ok"
                /\ report.consumption
                     = ScanTiles(_tiles, sunlight, width * height).upkeep + demand
                /\ net >= 0 =>
                     /\ report.stored = Min(net, max_storage - energy_storage)
                     /\ report.stored
                          = Min(net, r.state.max_storage - energy_storage)
                     /\ report.overflow = net - report.stored
                     /\ report.discharged = 0
                     /\ report.unmet_demand = 0
                     /\ r.state.energy_storage = energy_storage + report.stored
                     /\ r.state.unmet_demand = unmet_demand
                     /\ CapacityOf(_tiles, Cells) = 0 =>
                          report.stored = 0 /\ report.overflow = net

\* A surplus turn has filled what room was left in a partly charged store
\* and lost the rest as overflow.
C9_Witness ==
    /\ last.op = "advance" /\ last.outcome = "ok"
    /\ last.report[1].stored > 0
    /\ last.report[1].overflow > 0
    /\ last.pre_energy_storage > 0
    /\ energy_storage = last.pre_energy_storage + last.report[1].stored

\* C10: in an advance_turn with net = production - upkeep - demand < 0, with
\* requirement = -net: discharged = min(energy_storage before, requirement),
\* the turn's unmet_demand = requirement - discharged, stored = 0 and
\* overflow = 0; energy_storage falls by exactly discharged and the cumulative
\* unmet_demand grows by exactly the turn's unmet_demand.
C10_DeficitTurn ==
    \A sunlight \in Sunlights, demand \in Demands :
        (sunlight >= 0 /\ demand >= 0) =>
            LET r == advance_turn_result(Snapshot, sunlight, demand)
                report == r.report[1]
                net == NetOf(report)
                requirement == -net
            IN  net < 0 =>
                    /\ report.discharged = Min(energy_storage, requirement)
                    /\ report.unmet_demand = requirement - report.discharged
                    /\ report.stored = 0
                    /\ report.overflow = 0
                    /\ r.state.energy_storage
                         = energy_storage - report.discharged
                    /\ r.state.unmet_demand
                         = unmet_demand + report.unmet_demand
                    /\ (report.unmet_demand > 0 =>
                          report.discharged = energy_storage)

\* The second turn of the two-turn scenario: 1.7 stored, then sunlight 0.2 and
\* demand 3.0 give production 0.8, consumption 3.3, discharged 1.7, unmet 0.8.
C10_Witness ==
    /\ last.op = "advance" /\ last.outcome = "ok"
    /\ last.pre_energy_storage = 170
    /\ last.report[1] = EnergyReport(80, 330, 0, 170, 80, 0)
    /\ energy_storage = 0
    /\ unmet_demand = 80

\* ------------------------------------------------------ claims on the grid
\* The coordinate pairs of the board.
Coordinates == (0 .. width - 1) \X (0 .. height - 1)

\* The four orthogonal steps.
Orthogonal == {<<-1, 0>>, <<1, 0>>, <<0, -1>>, <<0, 1>>}

\* The number of cells of the board one orthogonal step from (x, y) whose
\* occupant has the name of the occupant of (x, y), by coordinates.
SameNamedNeighbours(x, y) ==
    Cardinality({d \in Orthogonal :
        /\ InBoard(x + d[1], y + d[2])
        /\ occupant[<<x + d[1], y + d[2]>>] # None
        /\ Structure(occupant[<<x + d[1], y + d[2]>>]).name
             = Structure(occupant[<<x, y>>]).name})

\* The sum over the populated cells of the set S of coordinate pairs of
\* max(0, (base_production + adjacency_bonus * n) * sunlight).
RECURSIVE ExpectedProduction(_, _)
ExpectedProduction(sunlight, S) ==
    IF S = {}
    THEN 0
    ELSE LET c == CHOOSE p \in S : TRUE
             s == Structure(occupant[c])
             raw == ((s.base_production
                        + s.adjacency_bonus * SameNamedNeighbours(c[1], c[2]))
                     * sunlight) \div 10
         IN  (IF occupant[c] = None THEN 0 ELSE Max(0, raw))
             + ExpectedProduction(sunlight, S \ {c})

\* C11: for every grid and every sunlight >= 0 the production advance_turn
\* reports is the sum over the populated cells of
\* max(0, (base_production + adjacency_bonus * n) * sunlight), n being the
\* cell's number of same-named orthogonal neighbours.
C11_ProductionFormula ==
    \A sunlight \in Sunlights :
        sunlight >= 0 =>
            advance_turn_result(Snapshot, sunlight, 0).report[1].production
                = ExpectedProduction(sunlight, Coordinates)

\* A turn at sunlight 3.0 on a board whose only producers are two panels side
\* by side: each yields (4.0 + 0.4) * 3.0 = 13.2, together 26.4.
C11_Witness ==
    /\ last.op = "advance" /\ last.outcome = "ok"
    /\ width >= 2
    /\ occupant[<<0, 0>>] = "SOLAR_PANEL"
    /\ occupant[<<1, 0>>] = "SOLAR_PANEL"
    /\ \A c \in Coordinates \ {<<0, 0>>, <<1, 0>>} : occupant[c] # "SOLAR_PANEL"
    /\ last.report[1].production = 2640

\* C15: structures() returns the width * height cells in row-major order
\* (entry y * width + x is the occupant of cell (x, y), None when empty); a
\* second call with no mutation in between returns the same snapshot; the
\* call changes no field of the engine.
C15_SnapshotRowMajor ==
    /\ [](/\ Len(tuple(_tiles)) = width * height
          /\ \A c \in Coordinates :
               tuple(_tiles)[c[2] * width + c[1] + 1] = occupant[c]
          /\ last.op = "structures" => last.snapshot = tuple(_tiles))
    /\ [][last'.op = "structures" =>
            UNCHANGED <<width, height, _tiles, energy_storage, max_storage,
                        unmet_demand>>]_vars

\* A snapshot taken of a 2 x 2 board with a panel at (1, 0) and a storage unit
\* at (0, 1).
C15_Witness ==
    /\ last.op = "structures"
    /\ width = 2 /\ height = 2
    /\ occupant[<<1, 0>>] = "SOLAR_PANEL"
    /\ occupant[<<0, 1>>] = "BATTERY_BANK"
    /\ last.snapshot = <<None, "SOLAR_PANEL", "BATTERY_BANK", None>>

\* C16: for every populated cell of every grid, the same-type adjacency count
\* is the number of cells of the board at (x-1,y), (x+1,y), (x,y-1), (x,y+1)
\* whose occupant has the cell's occupant's name: at most 4, no diagonals, no
\* wrap-around from the end of one row to the start of the next.
C16_AdjacencyCount ==
    /\ \A c \in Coordinates :
         occupant[c] # None =>
            /\ _adjacent_same_type(_tiles, c[2] * width + c[1])
                 = SameNamedNeighbours(c[1], c[2])
            /\ _adjacent_same_type(_tiles, c[2] * width + c[1]) <= 4
    /\ \A i \in Cells : \A n \in _neighbors(i) :
         LET xi == i % width
             yi == i \div width
             xn == n % width
             yn == n \div width
         IN  /\ n \in Cells
             /\ \/ (yn = yi /\ (xn = xi + 1 \/ xn + 1 = xi))
                \/ (xn = xi /\ (yn = yi + 1 \/ yn + 1 = yi))

\* A turn resolved on a 2 x 2 board with panels at (1, 0) and (0, 1) only:
\* flat indices 1 and 2, next to each other in the list and diagonal on the
\* board, and neither counts the other.
C16_Witness ==
    /\ last.op = "advance" /\ last.outcome = "ok"
    /\ width = 2 /\ height = 2
    /\ occupant[<<1, 0>>] = "SOLAR_PANEL"
    /\ occupant[<<0, 1>>] = "SOLAR_PANEL"
    /\ occupant[<<0, 0>>] = None
    /\ occupant[<<1, 1>>] = None
    /\ _adjacent_same_type(_tiles, 1) = 0
    /\ _adjacent_same_type(_tiles, 2) = 0
    /\ last.report[1].production = 2400

\* The sum of upkeep over the populated cells of the set S of coordinate
\* pairs.
RECURSIVE ExpectedUpkeep(_)
ExpectedUpkeep(S) ==
    IF S = {}
    THEN 0
    ELSE LET c == CHOOSE p \in S : TRUE
         IN  (IF occupant[c] = None THEN 0 ELSE Structure(occupant[c]).upkeep)
             + ExpectedUpkeep(S \ {c})

\* C12: upkeep is a flat per-turn cost: for every advance_turn, whatever the
\* sunlight (0 included) and whatever the structures produced, the report's
\* consumption is the sum of upkeep over the placed structures plus demand.
C12_ConsumptionIsUpkeepPlusDemand ==
    \A sunlight \in Sunlights, demand \in Demands :
        ~InvalidInput(sunlight, demand) =>
            advance_turn_result(Snapshot, sunlight, demand).report[1].consumption
                = ExpectedUpkeep(Coordinates) + demand

\* A turn in darkness (sunlight 0, demand 0) on a board holding a panel and a
\* battery bank: nothing is produced and 0.25 + 0.05 = 0.30 is consumed.
C12_Witness ==
    /\ last.op = "advance" /\ last.outcome = "ok"
    /\ \E c \in Coordinates : occupant[c] = "SOLAR_PANEL"
    /\ \E c \in Coordinates : occupant[c] = "BATTERY_BANK"
    /\ last.report[1].production = 0
    /\ last.report[1].consumption = 30

\* C13: a successful place_structure stores the structure in the target cell
\* and raises max_storage by the structure's storage_capacity at once, before
\* any advance_turn; energy_storage, unmet_demand and every other cell stay
\* as they were.  Stated of every call on a free cell of the board from every
\* reachable state, and of every successful place_structure step taken.
C13_PlaceFrame ==
    /\ [](\A c \in Coordinates, h \in Catalogue :
            occupant[c] = None =>
                LET r == place_structure_result(Snapshot, c[1], c[2], h)
                    target == c[2] * width + c[1]
                IN  /\ r.outcome = "ok"
                    /\ r.state._tiles[target] = h
                    /\ r.state.max_storage
                         = max_storage + Structure(h).storage_capacity
                    /\ r.state.energy_storage = energy_storage
                    /\ r.state.unmet_demand = unmet_demand
                    /\ \A i \in DOMAIN _tiles \ {target} :
                         r.state._tiles[i] = _tiles[i])
    /\ [][(last'.op = "place" /\ last'.outcome = "ok") =>
            /\ _tiles[last'.index] = None
            /\ _tiles'[last'.index] # None
            /\ max_storage'
                 = max_storage + Structure(_tiles'[last'.index]).storage_capacity
            /\ energy_storage' = energy_storage
            /\ unmet_demand' = unmet_demand
            /\ \A i \in DOMAIN _tiles \ {last'.index} : _tiles'[i] = _tiles[i]
            /\ turns' = turns]_vars

\* A second battery bank was just placed beside the first while energy was
\* stored: the cap doubled from 12.0 to 24.0 and the stored energy stayed.
C13_Witness ==
    /\ last.op = "place" /\ last.outcome = "ok"
    /\ _tiles[last.index] = "BATTERY_BANK"
    /\ last.pre_max_storage = 1200
    /\ max_storage = 2400
    /\ last.pre_energy_storage > 0
    /\ energy_storage = last.pre_energy_storage
    /\ unmet_demand = last.pre_unmet_demand

\* C14: a successful remove_structure clears the cell, lowers max_storage by
\* the removed structure's storage_capacity (not below 0) and sets
\* energy_storage to min(energy_storage, new max_storage); unmet_demand and
\* the other cells stay as they were.  The energy the clamp discards is not
\* accounted for later: in the turn that follows the removal the overflow is
\* the part of that turn's own net surplus that does not fit the room left
\* under the new cap, and in every reachable state (so after any removal) a
\* turn's overflow is at most that turn's production - consumption.
C14_RemoveFrame ==
    /\ \A c \in Coordinates :
         occupant[c] # None =>
            LET r == remove_structure_result(Snapshot, c[1], c[2])
                target == c[2] * width + c[1]
                cap == Max(0, max_storage
                                - Structure(occupant[c]).storage_capacity)
            IN  /\ r.outcome = "ok"
                /\ r.state._tiles[target] = None
                /\ r.state.max_storage = cap
                /\ r.state.energy_storage = Min(energy_storage, cap)
                /\ r.state.unmet_demand = unmet_demand
                /\ \A i \in DOMAIN _tiles \ {target} :
                     r.state._tiles[i] = _tiles[i]
                /\ \A input \in TurnInputs :
                     ~InvalidInput(input[1], input[2]) =>
                        LET report ==
                                advance_turn_result(r.state, input[1],
                                                    input[2]).report[1]
                        IN  report.overflow
                              = Max(0, NetOf(report)
                                         - (cap - Min(energy_storage, cap)))
    /\ \A input \in TurnInputs :
         ~InvalidInput(input[1], input[2]) =>
            LET report ==
                    advance_turn_result(Snapshot, input[1], input[2]).report[1]
            IN  report.overflow <= Max(0, NetOf(report))

\* One of two battery banks was just removed while 23.3 was stored under a
\* cap of 24.0: the cap fell to 12.0, the stored energy was cut to 12.0 and
\* unmet_demand did not move.
C14_Witness ==
    /\ last.op = "remove" /\ last.outcome = "ok"
    /\ last.pre_max_storage = 2400
    /\ last.pre_energy_storage = 2330
    /\ max_storage = 1200
    /\ energy_storage = 1200
    /\ unmet_demand = last.pre_unmet_demand

\* C17: in exact arithmetic the degenerate-storage guard of advance_turn
\* never fires: in every reachable state and for every valid input, when the
\* guard is evaluated the condition max_storage = 0 and energy_storage # 0 is
\* false, and the energy_storage the turn leaves is the one the charge /
\* discharge step computed.
C17_GuardNeverFires ==
    \A sunlight \in Sunlights, demand \in Demands :
        ~InvalidInput(sunlight, demand) =>
            LET g == BeforeGuard(Snapshot, sunlight, demand)
                r == advance_turn_result(Snapshot, sunlight, demand)
            IN  /\ ~(g.max_storage = 0 /\ g.energy_storage # 0)
                /\ GuardedStorage(g.energy_storage, g.max_storage)
                     = g.energy_storage
                /\ r.state.max_storage = g.max_storage
                /\ r.state.energy_storage = g.energy_storage

\* Turns were resolved without any storage on the board, one with a surplus
\* and one with a shortfall: max_storage is 0, the latest turn had nowhere to
\* put its surplus, and energy_storage is 0.
C17_Witness ==
    /\ last.op = "advance" /\ last.outcome = "ok"
    /\ last.pre_max_storage = 0
    /\ max_storage = 0
    /\ last.report[1].overflow > 0
    /\ unmet_demand > 0
    /\ energy_storage = 0

\* The energy balance of one report: what came in (production, discharge,
\* and the shortfall left unmet) equals what went out (consumption, charge,
\* overflow); no field is negative; and the surplus pair (stored, overflow)
\* and the deficit pair (discharged, unmet_demand) do not both hold a nonzero
\* value.
Balanced(report) ==
    /\ report.production + report.discharged + report.unmet_demand
         = report.consumption + report.stored + report.overflow
    /\ report.production >= 0 /\ report.consumption >= 0
    /\ report.stored >= 0 /\ report.overflow >= 0
    /\ report.discharged >= 0 /\ report.unmet_demand >= 0
    /\ ~(/\ report.stored # 0 \/ report.overflow # 0
         /\ report.discharged # 0 \/ report.unmet_demand # 0)

\* C18: every report advance_turn returns is balanced: production +
\* discharged + unmet_demand = consumption + stored + overflow, all six
\* fields are non-negative, and at most one of the pairs (stored, overflow)
\* and (discharged, unmet_demand) holds a nonzero value.
C18_EnergyBalance ==
    /\ \A sunlight \in Sunlights, demand \in Demands :
         ~InvalidInput(sunlight, demand) =>
            Balanced(advance_turn_result(Snapshot, sunlight, demand).report[1])
    /\ (last.op = "advance" /\ last.outcome = "ok") =>
         Balanced(last.report[1])

\* A dim turn whose shortfall the store covered in full: something was
\* produced, the rest of the consumption was discharged, nothing was left
\* unmet.
C18_Witness ==
    /\ last.op = "advance" /\ last.outcome = "ok"
    /\ last.report[1].production > 0
    /\ last.report[1].discharged > 0
    /\ last.report[1].unmet_demand = 0
    /\ last.report[1].production + last.report[1].discharged
         = last.report[1].consumption
    /\ energy_storage = last.pre_energy_storage - last.report[1].discharged

\* C19: energy is lost, or demand left unmet, only when storage cannot help:
\* after any advance_turn whose report has overflow > 0, energy_storage equals
\* max_storage, and after any advance_turn whose report has unmet_demand > 0,
\* energy_storage equals 0.
C19_LossOnlyAtLimits ==
    /\ \A sunlight \in Sunlights, demand \in Demands :
         ~InvalidInput(sunlight, demand) =>
            LET r == advance_turn_result(Snapshot, sunlight, demand)
            IN  /\ r.report[1].overflow > 0 =>
                     r.state.energy_storage = r.state.max_storage
                /\ r.report[1].unmet_demand > 0 =>
                     r.state.energy_storage = 0
    /\ (last.op = "advance" /\ last.outcome = "ok") =>
         /\ last.report[1].overflow > 0 => energy_storage = max_storage
         /\ last.report[1].unmet_demand > 0 => energy_storage = 0

\* The panel is gone and a battery bank is left holding some energy; the
\* turn produced nothing, drained the bank and still left demand unmet.
C19_Witness ==
    /\ last.op = "advance" /\ last.outcome = "ok"
    /\ last.report[1].production = 0
    /\ last.report[1].discharged > 0
    /\ last.report[1].discharged = last.pre_energy_storage
    /\ last.report[1].unmet_demand > 0
    /\ max_storage > 0
    /\ energy_storage = 0

\* The store is full.
Full == energy_storage = max_storage

\* C20: once the grid no longer changes, max_storage > 0 and advance_turn is
\* called again and again with one input that gives net > 0, energy_storage
\* reaches max_storage after finitely many turns and stays there, and from
\* then on every turn reports stored = 0 and overflow = net.
C20_StoreFillsAndStaysFull ==
    /\ (schedule # <<>>) ~> Full
    /\ [][(schedule # <<>> /\ Full) => (schedule' # <<>> /\ Full')]_vars
    /\ [][schedule # <<>> =>
            /\ schedule' = schedule
            /\ _tiles' = _tiles /\ max_storage' = max_storage]_vars
    /\ [](schedule # <<>> =>
            LET r == advance_turn_result(Snapshot, schedule[1], schedule[2])
            IN  /\ max_storage > 0
                /\ NetOf(r.report[1]) > 0
                /\ Full => /\ r.report[1].stored = 0
                           /\ r.report[1].overflow = NetOf(r.report[1])
                           /\ r.state.energy_storage = r.state.max_storage)
    /\ [][(schedule # <<>> /\ Full /\ last'.op = "advance") =>
            /\ last'.report[1].stored = 0
            /\ last'.report[1].overflow = NetOf(last'.report[1])]_vars

\* The store was filled by repeated turns that each brought less than the
\* cap, and a further turn has been resolved on the full store: nothing
\* stored, the whole surplus lost.
C20_Witness ==
    /\ schedule # <<>>
    /\ last.op = "advance" /\ last.outcome = "ok"
    /\ max_storage > 0
    /\ last.pre_energy_storage = max_storage
    /\ Full
    /\ NetOf(last.report[1]) > 0
    /\ NetOf(last.report[1]) < max_storage
    /\ last.report[1].stored = 0
    /\ last.report[1].overflow = NetOf(last.report[1])

====
